---- MODULE Spec2Model ----
(***************************************************************************)
(* The two gallery scripts of the repository as one state machine:         *)
(*   examples/plotting/hmi_synoptic_maps.py   (script = "hmi")             *)
(*   examples/loop_edge_enhance.py            (script = "edge")            *)
(* One action per statement of a script; pc is the line number of the      *)
(* statement about to run.                                                 *)
(***************************************************************************)
EXTENDS Integers, Sequences, FiniteSets, TLC

VARIABLES
  script,    \* which script this process runs: "hmi" or "edge"
  input,     \* the file the script reads: the remote FITS file / the sample image
  pc,        \* line of the statement about to run
  status,    \* "running", "done" or "failed"
  err,       \* the exception that ended the run, "none" otherwise
  maps,      \* the Image Maps the script holds, by variable name
  locals,    \* the other variables of the script, by name
  fig,       \* what the Renderer has been asked to draw, in order
  cache,     \* astropy's download cache on disk: url -> file content
  fetches,   \* number of network fetches performed so far (all invocations)
  hits,      \* number of loads served from the cache so far (all invocations)
  stages,    \* stages that have run so far in this invocation, in order
  before     \* the Image Maps as they were when the current operation began

vars == <<script, input, pc, status, err, maps, locals, fig, cache,
          fetches, hits, stages, before>>

----------------------------------------------------------------------------
(* Bounds of the model *)

MaxFetches == 2   \* network fetches over all the invocations of a script
MaxHits == 2      \* loads served from the cache over all the invocations
MaxCoef == 2      \* header numbers range over -MaxCoef .. MaxCoef
MaxDim == 3       \* the sample image has at most MaxDim rows and columns
MaxCoord == 3     \* corner coordinates range over 0 .. MaxCoord
MaxSample == 1    \* samples of a constant image range over -MaxSample .. MaxSample
MaxScale == 2     \* the pixel step of the sample image ranges over 1 .. MaxScale

----------------------------------------------------------------------------
(* Header numbers.  A number is coef * (180/pi)^pow, held exactly; zero has *)
(* the single representation coef = 0, pow = 0.                             *)

Num(c, p) == IF c = 0 THEN [coef |-> 0, pow |-> 0] ELSE [coef |-> c, pow |-> p]

N(i) == Num(i, 0)

\* x, the factor left out
RadToDegNoFactor(x) == x

\* 180 / np.pi * x
RadToDeg(x) == Num(x.coef, x.pow + 1)

\* x negated twice
TimesMinusOneTwice(x) == Num(0 - (0 - x.coef), x.pow)

\* x *= -1
TimesMinusOne(x) == Num(-x.coef, x.pow)

\* x + 1, for a plain number (CAR_ROT)
PlusOne(x) == Num(x.coef + 1, x.pow)

----------------------------------------------------------------------------
(* 2-D arrays: a sequence of rows, each a sequence of samples *)

NRows(a) == Len(a)
NCols(a) == IF Len(a) = 0 THEN 0 ELSE Len(a[1])
Shape(a) == <<NRows(a), NCols(a)>>

\* mode='constant': a sample outside the array reads as cval = 0
Sample(a, i, j) ==
  IF i >= 1 /\ i <= NRows(a) /\ j >= 1 /\ j <= NCols(a) THEN a[i][j] ELSE 0

\* scipy.ndimage.correlate1d(a, w, axis, mode='constant') for a weight
\* vector of length 3 and origin 0: out[i] = w[1] a[i-1] + w[2] a[i] + w[3] a[i+1]
correlate1d(a, w, axis) ==
  [i \in 1..NRows(a) |->
    [j \in 1..NCols(a) |->
      IF axis = 0
      THEN w[1] * Sample(a, i - 1, j) + w[2] * Sample(a, i, j) + w[3] * Sample(a, i + 1, j)
      ELSE w[1] * Sample(a, i, j - 1) + w[2] * Sample(a, i, j) + w[3] * Sample(a, i, j + 1)]]

\* the same under scipy's default mode='reflect': a sample one step outside
\* the array reads as the nearest sample inside
Clamp(i, n) == IF i < 1 THEN 1 ELSE IF i > n THEN n ELSE i

SampleReflect(a, i, j) == a[Clamp(i, NRows(a))][Clamp(j, NCols(a))]

correlate1dReflect(a, w, axis) ==
  [i \in 1..NRows(a) |->
    [j \in 1..NCols(a) |->
      IF axis = 0
      THEN w[1] * SampleReflect(a, i - 1, j) + w[2] * SampleReflect(a, i, j)
           + w[3] * SampleReflect(a, i + 1, j)
      ELSE w[1] * SampleReflect(a, i, j - 1) + w[2] * SampleReflect(a, i, j)
           + w[3] * SampleReflect(a, i, j + 1)]]

\* scipy.ndimage.sobel(a, axis) with the mode argument left out
sobelReflect(a, axis) ==
  correlate1dReflect(correlate1dReflect(a, <<-1, 0, 1>>, axis), <<1, 2, 1>>, 1 - axis)

\* scipy.ndimage.sobel(a, axis, mode='constant'): the derivative [-1, 0, 1]
\* along axis, then the smoothing [1, 2, 1] along the other axis
sobel(a, axis) ==
  correlate1d(correlate1d(a, <<-1, 0, 1>>, axis), <<1, 2, 1>>, 1 - axis)

\* np.hypot(sx, sy), sample by sample.  A sample of the result is the
\* non-negative real sqrt(gx^2 + gy^2); it is held here by its square, which
\* determines it.
hypot(sx, sy) ==
  [i \in 1..NRows(sx) |->
    [j \in 1..NCols(sx) |-> sx[i][j] * sx[i][j] + sy[i][j] * sy[i][j]]]

----------------------------------------------------------------------------
(* Finite maps by name *)

Put(f, k, v) == [x \in DOMAIN f \cup {k} |-> IF x = k THEN v ELSE f[x]]

Restrict(f, S) == [x \in S |-> f[x]]

----------------------------------------------------------------------------
(* Image Maps (sunpy.map.Map): a sample array, a header and the plot       *)
(* settings, which are an attribute of their own beside the header.        *)

DefaultPlotSettings == [cmap |-> "gray", norm |-> <<>>]

\* sunpy.map.Map(filename)
MapFromFile(content) ==
  [data |-> content.data, meta |-> content.meta,
   plot_settings |-> DefaultPlotSettings]

\* sunpy.map.Map(data, meta)
MapFromPair(data, meta) ==
  [data |-> data, meta |-> meta, plot_settings |-> DefaultPlotSettings]

SetMeta(m, k, v) == [m EXCEPT !.meta = Put(m.meta, k, v)]

SetPlotSetting(m, k, v) == [m EXCEPT !.plot_settings = Put(m.plot_settings, k, v)]

----------------------------------------------------------------------------
(* The files the scripts read *)

Unparseable == [parseable |-> FALSE, data |-> <<>>, meta |-> <<>>]

Coefs == (-MaxCoef)..MaxCoef

HmiKeys ==
  {"CUNIT2", "CDELT1", "CDELT2", "CTYPE1", "CTYPE2", "content", "CAR_ROT"}

\* the header of hmi.Synoptic_Mr.2191.fits, with CDELT1 = c and CDELT2 = d
HmiHeader(c, d) ==
  [CUNIT2 |-> "Sine Latitude", CDELT1 |-> N(c), CDELT2 |-> N(d),
   CTYPE1 |-> "CRLN-CEA", CTYPE2 |-> "CRLT-CEA",
   content |-> "Carrington Synoptic Chart Of Br Field", CAR_ROT |-> N(2191)]

\* the keys a header may lack: none, any one, or both step sizes
MissingKeys == {{}} \cup {{k} : k \in HmiKeys} \cup {{"CDELT1", "CDELT2"}}

HmiData == <<<<0, 1, -1>>, <<2, 0, 1>>>>

HmiInputs ==
  {[parseable |-> TRUE, data |-> HmiData,
    meta |-> Restrict(HmiHeader(c, d), HmiKeys \ miss)] :
      c \in Coefs, d \in Coefs, miss \in MissingKeys}
  \cup {Unparseable}

URL == "http://jsoc.stanford.edu/data/hmi/synoptic/hmi.Synoptic_Mr.2191.fits"

\* download_file(..., cache=False)
NoCache == FALSE

\* download_file(..., cache=True)
UseCache == TRUE

----------------------------------------------------------------------------
(* Program order *)

HmiLines == <<21, 23, 27, 33, 34, 43, 44, 46, 50, 51, 55, 56, 57, 60, 77, 81, 82, 84>>

EdgeLines == <<21, 22, 23, 24, 28, 29, 30, 34, 36, 37, 38, 39, 40, 42>>

Lines(s) == IF s = "hmi" THEN HmiLines ELSE EdgeLines

First(s) == Lines(s)[1]

IndexOf(seq, l) == CHOOSE i \in 1..Len(seq) : seq[i] = l

\* the statement after line l in an order s gives; 0 after the last one
Follow(order, l) ==
  IF IndexOf(order, l) = Len(order) THEN 0 ELSE order[IndexOf(order, l) + 1]

\* the figure opened before the plot settings are made
SuccPlotFirst(s, l) ==
  IF s = "hmi"
  THEN Follow(<<21, 23, 27, 33, 34, 43, 44, 46, 55, 50, 51, 56, 57, 60, 77, 81, 82, 84>>, l)
  ELSE Follow(EdgeLines, l)

\* the statement after line l of script s; 0 after the last one
Succ(s, l) == Follow(Lines(s), l)

\* the stage a statement belongs to; "none" for the statements that only
\* print a header value or build a Coordinate Point
Stage(s, l) ==
  IF s = "hmi"
  THEN CASE l \in {21, 23} -> "Loader"
         [] l \in {27, 33, 34} -> "none"
         [] l \in {43, 44, 46, 50, 51} -> "Adjuster"
         [] OTHER -> "Renderer"
  ELSE CASE l \in {21, 34} -> "Loader"
         [] l \in {22, 23} -> "none"
         [] l \in {24, 28, 29, 30} -> "Adjuster"
         [] OTHER -> "Renderer"

\* statements that continue the operation begun by an earlier statement: the
\* header correction is lines 43-46, the filter is lines 28-30
Continues(s, l) ==
  \/ s = "hmi" /\ l \in {44, 46}
  \/ s = "edge" /\ l \in {29, 30}

Log(st) ==
  IF st = "none" \/ (stages # <<>> /\ stages[Len(stages)] = st)
  THEN stages ELSE Append(stages, st)

Running(s, l) == script = s /\ status = "running" /\ pc = l

\* bookkeeping common to every statement
Book ==
  /\ stages' = Log(Stage(script, pc))
  /\ before' = IF Continues(script, pc) THEN before ELSE maps
  /\ UNCHANGED <<script, input>>

Advance ==
  /\ pc' = Succ(script, pc)
  /\ status' = IF Succ(script, pc) = 0 THEN "done" ELSE "running"
  /\ err' = err

\* an exception propagates to the top level and the script aborts
Raise(e) ==
  /\ pc' = pc
  /\ status' = "failed"
  /\ err' = e

----------------------------------------------------------------------------
(* examples/plotting/hmi_synoptic_maps.py *)

\* print(syn_map.meta[key]): a KeyError when the header lacks the key
PrintMeta(l, key) ==
  /\ Running("hmi", l) /\ Book
  /\ IF key \in DOMAIN maps["syn_map"].meta THEN Advance ELSE Raise("KeyError")
  /\ UNCHANGED <<maps, locals, fig, cache, fetches, hits>>

Draw(op, arg) == fig' = Append(fig, [op |-> op, arg |-> arg])

\* filename = download_file(URL, cache=True): the cached file when the cache
\* holds the URL, else one network fetch, which may fail
Hmi21_download_file ==
  /\ Running("hmi", 21) /\ Book
  /\ IF UseCache /\ URL \in DOMAIN cache
     THEN /\ hits < MaxHits
          /\ hits' = hits + 1
          /\ locals' = Put(locals, "filename", cache[URL])
          /\ Advance
          /\ UNCHANGED <<cache, fetches>>
     ELSE /\ fetches < MaxFetches
          /\ fetches' = fetches + 1
          /\ hits' = hits
          /\ \E ok \in BOOLEAN :
               IF ok
               THEN /\ cache' = IF UseCache THEN Put(cache, URL, input) ELSE cache
                    /\ locals' = Put(locals, "filename", input)
                    /\ Advance
               ELSE /\ Raise("URLError")
                    /\ UNCHANGED <<cache, locals>>
  /\ UNCHANGED <<maps, fig>>

\* syn_map = sunpy.map.Map(filename)
Hmi23_Map ==
  /\ Running("hmi", 23) /\ Book
  /\ IF locals["filename"].parseable
     THEN /\ maps' = Put(maps, "syn_map", MapFromFile(locals["filename"]))
          /\ Advance
     ELSE /\ Raise("LoadError")
          /\ UNCHANGED maps
  /\ UNCHANGED <<locals, fig, cache, fetches, hits>>

Hmi27_print == PrintMeta(27, "CUNIT2")

Hmi33_print == PrintMeta(33, "CTYPE1")

Hmi34_print == PrintMeta(34, "CTYPE2")

\* syn_map.meta['CUNIT2'] = 'deg'
SetCUNIT2Deg(m) == SetMeta(m, "CUNIT2", "deg")

\* syn_map.meta['CUNIT2'] = 'degree'
SetCUNIT2(m) == SetMeta(m, "CUNIT2", "degree")

\* syn_map.meta['CDELT1'] = 180 / np.pi * syn_map.meta['CDELT2']
RescaleCDELT1(m) == SetMeta(m, "CDELT1", RadToDeg(m.meta["CDELT2"]))

\* syn_map.meta['CDELT2'] = 180 / np.pi * syn_map.meta['CDELT2']
RescaleCDELT2(m) == SetMeta(m, "CDELT2", RadToDeg(m.meta["CDELT2"]))

\* syn_map.meta['CDELT1'] *= -1
NegateCDELT1(m) == SetMeta(m, "CDELT1", TimesMinusOne(m.meta["CDELT1"]))

\* lines 43-46 as one function of the map
Correction(m) == NegateCDELT1(RescaleCDELT2(SetCUNIT2(m)))

Hmi43_set_CUNIT2 ==
  /\ Running("hmi", 43) /\ Book
  /\ maps' = Put(maps, "syn_map", SetCUNIT2(maps["syn_map"]))
  /\ Advance
  /\ UNCHANGED <<locals, fig, cache, fetches, hits>>

Hmi44_set_CDELT2 ==
  /\ Running("hmi", 44) /\ Book
  /\ IF "CDELT2" \in DOMAIN maps["syn_map"].meta
     THEN /\ maps' = Put(maps, "syn_map", RescaleCDELT2(maps["syn_map"]))
          /\ Advance
     ELSE /\ Raise("KeyError")
          /\ UNCHANGED maps
  /\ UNCHANGED <<locals, fig, cache, fetches, hits>>

Hmi46_negate_CDELT1 ==
  /\ Running("hmi", 46) /\ Book
  /\ IF "CDELT1" \in DOMAIN maps["syn_map"].meta
     THEN /\ maps' = Put(maps, "syn_map", NegateCDELT1(maps["syn_map"]))
          /\ Advance
     ELSE /\ Raise("KeyError")
          /\ UNCHANGED maps
  /\ UNCHANGED <<locals, fig, cache, fetches, hits>>

\* syn_map.meta['cmap'] = 'hmimag'
CmapIntoMeta(m) == SetMeta(m, "cmap", "hmimag")

\* syn_map.plot_settings['cmap'] = 'hmimag'
SetCmap(m) == SetPlotSetting(m, "cmap", "hmimag")

\* syn_map.plot_settings['norm'] = plt.Normalize(-1500, 1500)
SetNorm(m) == SetPlotSetting(m, "norm", <<-1500, 1500>>)

Hmi50_set_cmap ==
  /\ Running("hmi", 50) /\ Book
  /\ maps' = Put(maps, "syn_map", SetCmap(maps["syn_map"]))
  /\ Advance
  /\ UNCHANGED <<locals, fig, cache, fetches, hits>>

Hmi51_set_norm ==
  /\ Running("hmi", 51) /\ Book
  /\ maps' = Put(maps, "syn_map", SetNorm(maps["syn_map"]))
  /\ Advance
  /\ UNCHANGED <<locals, fig, cache, fetches, hits>>

\* fig = plt.figure(figsize=(12, 5))
Hmi55_figure ==
  /\ Running("hmi", 55) /\ Book
  /\ Draw("figure", <<12, 5>>)
  /\ Advance
  /\ UNCHANGED <<maps, locals, cache, fetches, hits>>

\* axes = plt.subplot(projection=syn_map)
Hmi56_subplot ==
  /\ Running("hmi", 56) /\ Book
  /\ Draw("subplot", <<"projection", "syn_map">>)
  /\ Advance
  /\ UNCHANGED <<maps, locals, cache, fetches, hits>>

\* im = syn_map.plot(): drawn with the map's plot settings
Hmi57_plot ==
  /\ Running("hmi", 57) /\ Book
  /\ Draw("plot", <<"syn_map", maps["syn_map"].plot_settings>>)
  /\ Advance
  /\ UNCHANGED <<maps, locals, cache, fetches, hits>>

\* lines 60-75: coordinate types, tick formats, axis labels, ticks, grid
Hmi60_axes ==
  /\ Running("hmi", 60) /\ Book
  /\ Draw("axes", <<"longitude", "latitude", "dd", "grid">>)
  /\ Advance
  /\ UNCHANGED <<maps, locals, cache, fetches, hits>>

\* lines 77-78: cb = plt.colorbar(im, ...); cb.set_label(...)
Hmi77_colorbar ==
  /\ Running("hmi", 77) /\ Book
  /\ Draw("colorbar", <<"LOS Magnetic Field [Gauss]">>)
  /\ Advance
  /\ UNCHANGED <<maps, locals, cache, fetches, hits>>

\* axes.set_ylim((1, syn_map.data.shape[0] - 1))
Hmi81_set_ylim ==
  /\ Running("hmi", 81) /\ Book
  /\ Draw("set_ylim", <<1, NRows(maps["syn_map"].data) - 1>>)
  /\ Advance
  /\ UNCHANGED <<maps, locals, cache, fetches, hits>>

\* lines 82-83: plt.title("{} {}-{}".format(meta['content'], meta['CAR_ROT'],
\* meta['CAR_ROT'] + 1))
Hmi82_title ==
  /\ Running("hmi", 82) /\ Book
  /\ IF {"content", "CAR_ROT"} \subseteq DOMAIN maps["syn_map"].meta
     THEN /\ Draw("title", <<maps["syn_map"].meta["content"],
                             maps["syn_map"].meta["CAR_ROT"],
                             PlusOne(maps["syn_map"].meta["CAR_ROT"])>>)
          /\ Advance
     ELSE /\ Raise("KeyError")
          /\ UNCHANGED fig
  /\ UNCHANGED <<maps, locals, cache, fetches, hits>>

\* plt.show()
Hmi84_show ==
  /\ Running("hmi", 84) /\ Book
  /\ Draw("show", <<>>)
  /\ Advance
  /\ UNCHANGED <<maps, locals, cache, fetches, hits>>

----------------------------------------------------------------------------
(* examples/loop_edge_enhance.py *)

ConstArray(r, c, v) == [i \in 1..r |-> [j \in 1..c |-> v]]

RampArray(r, c) == [i \in 1..r |-> [j \in 1..c |-> (i - 1) * c + j]]

EdgeArrays ==
  {ConstArray(r, c, v) : r \in 1..MaxDim, c \in 1..MaxDim,
                         v \in (-MaxSample)..MaxSample}
  \cup {RampArray(r, c) : r \in 1..MaxDim, c \in 1..MaxDim}

\* the header of the sample image: pixel step s on both axes, the physical
\* origin at the lower left edge of the array
AiaHeader(s) ==
  [x \in {"CDELT1", "CDELT2", "CRPIX1", "CRPIX2", "CUNIT1", "CUNIT2",
          "CTYPE1", "CTYPE2"} |->
     CASE x \in {"CDELT1", "CDELT2"} -> N(s)
       [] x \in {"CRPIX1", "CRPIX2"} -> N(0)
       [] x \in {"CUNIT1", "CUNIT2"} -> "arcsec"
       [] x = "CTYPE1" -> "HPLN-TAN"
       [] x = "CTYPE2" -> "HPLT-TAN"]

EdgeInputs ==
  {[parseable |-> TRUE, data |-> a, meta |-> AiaHeader(s)] :
      a \in EdgeArrays, s \in 1..MaxScale}
  \cup {Unparseable}

\* The script's corners, (750, -200) and (1500, 550) arcsec, are fixed
\* points on a 1024 x 1024 image; on the small images here the corners
\* range over all the points of a grid that reaches beyond the image.
Coords == 0..MaxCoord

Points == {[x |-> x, y |-> y, frame |-> "helioprojective"] : x \in Coords, y \in Coords}

Max(a, b) == IF a >= b THEN a ELSE b

Min(a, b) == IF a <= b THEN a ELSE b

\* the pixel column (row) whose extent holds the physical coordinate x:
\* pixel p spans [(p - crpix) * cdelt, (p + 1 - crpix) * cdelt)
PixelFloor(x, cdelt, crpix) == (x \div cdelt) + crpix

PixelCeil(x, cdelt, crpix) == ((x + cdelt - 1) \div cdelt) + crpix

\* the pixel rectangle of the corners, clipped to the array: columns
\* lox+1 .. hix and rows loy+1 .. hiy
Rect(m, bl, tr) ==
  [lox |-> Max(0, PixelFloor(bl.x, m.meta["CDELT1"].coef, m.meta["CRPIX1"].coef)),
   hix |-> Min(NCols(m.data),
               PixelCeil(tr.x, m.meta["CDELT1"].coef, m.meta["CRPIX1"].coef)),
   loy |-> Max(0, PixelFloor(bl.y, m.meta["CDELT2"].coef, m.meta["CRPIX2"].coef)),
   hiy |-> Min(NRows(m.data),
               PixelCeil(tr.y, m.meta["CDELT2"].coef, m.meta["CRPIX2"].coef))]

\* the corners form a rectangle and it meets the array
RegionOk(m, bl, tr) ==
  /\ tr.x > bl.x /\ tr.y > bl.y
  /\ Rect(m, bl, tr).hix > Rect(m, bl, tr).lox
  /\ Rect(m, bl, tr).hiy > Rect(m, bl, tr).loy

\* the sliced array under the header of the whole map
SubmapKeepCRPIX(m, bl, tr) ==
  [m EXCEPT !.data =
     [i \in 1..(Rect(m, bl, tr).hiy - Rect(m, bl, tr).loy) |->
       [j \in 1..(Rect(m, bl, tr).hix - Rect(m, bl, tr).lox) |->
          m.data[Rect(m, bl, tr).loy + i][Rect(m, bl, tr).lox + j]]]]

\* aia.submap(bl, tr): the sliced array, the reference pixel shifted
Submap(m, bl, tr) ==
  [data |->
     [i \in 1..(Rect(m, bl, tr).hiy - Rect(m, bl, tr).loy) |->
       [j \in 1..(Rect(m, bl, tr).hix - Rect(m, bl, tr).lox) |->
          m.data[Rect(m, bl, tr).loy + i][Rect(m, bl, tr).lox + j]]],
   meta |->
     Put(Put(m.meta, "CRPIX1", N(m.meta["CRPIX1"].coef - Rect(m, bl, tr).lox)),
         "CRPIX2", N(m.meta["CRPIX2"].coef - Rect(m, bl, tr).loy)),
   plot_settings |-> m.plot_settings]

\* aia = Map(AIA_171_IMAGE)
Edge21_Map ==
  /\ Running("edge", 21) /\ Book
  /\ IF input.parseable
     THEN /\ maps' = Put(maps, "aia", MapFromFile(input))
          /\ Advance
     ELSE /\ Raise("LoadError")
          /\ UNCHANGED maps
  /\ UNCHANGED <<locals, fig, cache, fetches, hits>>

\* bl = SkyCoord(..., frame=aia.coordinate_frame)
Edge22_bl ==
  /\ Running("edge", 22) /\ Book
  /\ \E p \in Points : locals' = Put(locals, "bl", p)
  /\ Advance
  /\ UNCHANGED <<maps, fig, cache, fetches, hits>>

\* tr = SkyCoord(..., frame=aia.coordinate_frame)
Edge23_tr ==
  /\ Running("edge", 23) /\ Book
  /\ \E p \in Points : locals' = Put(locals, "tr", p)
  /\ Advance
  /\ UNCHANGED <<maps, fig, cache, fetches, hits>>

\* aia_smap = aia.submap(bl, tr)
Edge24_submap ==
  /\ Running("edge", 24) /\ Book
  /\ IF RegionOk(maps["aia"], locals["bl"], locals["tr"])
     THEN /\ maps' = Put(maps, "aia_smap",
                         Submap(maps["aia"], locals["bl"], locals["tr"]))
          /\ Advance
     ELSE /\ Raise("RegionError")
          /\ UNCHANGED maps
  /\ UNCHANGED <<locals, fig, cache, fetches, hits>>

\* sx = ndimage.sobel(aia_smap.data, axis=0, mode='constant')
Edge28_sobel_axis0 ==
  /\ Running("edge", 28) /\ Book
  /\ locals' = Put(locals, "sx", sobel(maps["aia_smap"].data, 0))
  /\ Advance
  /\ UNCHANGED <<maps, fig, cache, fetches, hits>>

\* sy = ndimage.sobel(aia_smap.data, axis=1, mode='constant')
Edge29_sobel_axis1 ==
  /\ Running("edge", 29) /\ Book
  /\ locals' = Put(locals, "sy", sobel(maps["aia_smap"].data, 1))
  /\ Advance
  /\ UNCHANGED <<maps, fig, cache, fetches, hits>>

\* edge_enhanced_im = np.hypot(sx, sy)
Edge30_hypot ==
  /\ Running("edge", 30) /\ Book
  /\ locals' = Put(locals, "edge_enhanced_im", hypot(locals["sx"], locals["sy"]))
  /\ Advance
  /\ UNCHANGED <<maps, fig, cache, fetches, hits>>

\* edge_map = Map(edge_enhanced_im, aia.meta)
EdgeMapOfParent(im, ms) == MapFromPair(im, ms["aia"].meta)

\* edge_map = Map(edge_enhanced_im, aia_smap.meta)
EdgeMap(im, ms) == MapFromPair(im, ms["aia_smap"].meta)

Edge34_Map ==
  /\ Running("edge", 34) /\ Book
  /\ maps' = Put(maps, "edge_map", EdgeMap(locals["edge_enhanced_im"], maps))
  /\ Advance
  /\ UNCHANGED <<locals, fig, cache, fetches, hits>>

\* plt.figure(figsize=(12, 4))
Edge36_figure ==
  /\ Running("edge", 36) /\ Book
  /\ Draw("figure", <<12, 4>>)
  /\ Advance
  /\ UNCHANGED <<maps, locals, cache, fetches, hits>>

\* plt.subplot(121)
Edge37_subplot ==
  /\ Running("edge", 37) /\ Book
  /\ Draw("subplot", <<121>>)
  /\ Advance
  /\ UNCHANGED <<maps, locals, cache, fetches, hits>>

\* aia_smap.plot()
Edge38_plot ==
  /\ Running("edge", 38) /\ Book
  /\ Draw("plot", <<"aia_smap", maps["aia_smap"].plot_settings>>)
  /\ Advance
  /\ UNCHANGED <<maps, locals, cache, fetches, hits>>

\* plt.subplot(122)
Edge39_subplot ==
  /\ Running("edge", 39) /\ Book
  /\ Draw("subplot", <<122>>)
  /\ Advance
  /\ UNCHANGED <<maps, locals, cache, fetches, hits>>

\* edge_map.plot()
Edge40_plot ==
  /\ Running("edge", 40) /\ Book
  /\ Draw("plot", <<"edge_map", maps["edge_map"].plot_settings>>)
  /\ Advance
  /\ UNCHANGED <<maps, locals, cache, fetches, hits>>

\* plt.show()
Edge42_show ==
  /\ Running("edge", 42) /\ Book
  /\ Draw("show", <<>>)
  /\ Advance
  /\ UNCHANGED <<maps, locals, cache, fetches, hits>>

----------------------------------------------------------------------------
(* The process *)

Init ==
  /\ \/ script = "hmi" /\ input \in HmiInputs
     \/ script = "edge" /\ input \in EdgeInputs
  /\ pc = First(script)
  /\ status = "running"
  /\ err = "none"
  /\ maps = <<>>
  /\ locals = <<>>
  /\ fig = <<>>
  /\ cache = <<>>
  /\ fetches = 0
  /\ hits = 0
  /\ stages = <<>>
  /\ before = <<>>

\* the script is invoked again: a new process, the same files and the same
\* download cache
Invoke ==
  /\ status \in {"done", "failed"}
  /\ pc' = First(script)
  /\ status' = "running"
  /\ err' = "none"
  /\ maps' = <<>>
  /\ locals' = <<>>
  /\ fig' = <<>>
  /\ stages' = <<>>
  /\ before' = <<>>
  /\ UNCHANGED <<script, input, cache, fetches, hits>>

Next ==
  \/ Hmi21_download_file \/ Hmi23_Map
  \/ Hmi27_print \/ Hmi33_print \/ Hmi34_print
  \/ Hmi43_set_CUNIT2 \/ Hmi44_set_CDELT2 \/ Hmi46_negate_CDELT1
  \/ Hmi50_set_cmap \/ Hmi51_set_norm
  \/ Hmi55_figure \/ Hmi56_subplot \/ Hmi57_plot \/ Hmi60_axes
  \/ Hmi77_colorbar \/ Hmi81_set_ylim \/ Hmi82_title \/ Hmi84_show
  \/ Edge21_Map \/ Edge22_bl \/ Edge23_tr \/ Edge24_submap
  \/ Edge28_sobel_axis0 \/ Edge29_sobel_axis1 \/ Edge30_hypot \/ Edge34_Map
  \/ Edge36_figure \/ Edge37_subplot \/ Edge38_plot \/ Edge39_subplot
  \/ Edge40_plot \/ Edge42_show
  \/ Invoke

Spec == Init /\ [][Next]_vars

----------------------------------------------------------------------------
(* Positions *)

\* line l of script s has completed in this invocation
Past(s, l) ==
  /\ script = s
  /\ pc = 0 \/ IndexOf(Lines(s), pc) > IndexOf(Lines(s), l)

syn == maps["syn_map"]

\* the header as the Loader returned it
loaded == input.meta

----------------------------------------------------------------------------
(* C1: once the script has performed the sine-latitude correction (line 46 *)
(* has completed), CDELT2 is 180/pi times the loaded CDELT2, CDELT1 is the *)
(* loaded CDELT1 negated once, and CUNIT2 is 'degree'.                     *)
C1_SineLatitudeCorrection ==
  Past("hmi", 46) =>
    /\ syn.meta["CUNIT2"] = "degree"
    /\ syn.meta["CDELT2"] =
         [coef |-> loaded["CDELT2"].coef,
          pow |-> IF loaded["CDELT2"].coef = 0 THEN 0 ELSE 1]
    /\ syn.meta["CDELT1"] = [coef |-> 0 - loaded["CDELT1"].coef, pow |-> 0]

\* the scenario CDELT2 = 1.0: the corrected CDELT2 is 180/pi
C1_Witness ==
  /\ Past("hmi", 46)
  /\ loaded["CDELT2"] = [coef |-> 1, pow |-> 0]
  /\ loaded["CDELT1"] = [coef |-> 2, pow |-> 0]
  /\ syn.meta["CDELT2"] = [coef |-> 1, pow |-> 1]
  /\ syn.meta["CDELT1"] = [coef |-> -2, pow |-> 0]

(* C2 as stated: applying the script's correction a second time gives the  *)
(* same map as applying it once.                                           *)
C2_CorrectionIdempotent ==
  Past("hmi", 46) => Correction(syn) = syn

(* C2 amended: a second application of the correction keeps CUNIT2 =       *)
(* 'degree' but multiplies CDELT2 by 180/pi once more and gives CDELT1 its *)
(* loaded sign back, so it equals the first application only when CDELT1   *)
(* and CDELT2 are both 0; the overrides by a fixed value (CUNIT2, cmap,    *)
(* norm) are idempotent.                                                   *)
C2_SecondApplication ==
  /\ Past("hmi", 46) =>
       /\ SetCUNIT2(syn) = syn
       /\ Correction(syn).meta["CUNIT2"] = "degree"
       /\ Correction(syn).meta["CDELT2"] =
            [coef |-> loaded["CDELT2"].coef,
             pow |-> IF loaded["CDELT2"].coef = 0 THEN 0 ELSE 2]
       /\ Correction(syn).meta["CDELT1"] = loaded["CDELT1"]
       /\ (Correction(syn) = syn) <=>
            (loaded["CDELT1"].coef = 0 /\ loaded["CDELT2"].coef = 0)
  /\ Past("hmi", 51) => SetNorm(SetCmap(syn)) = syn

C2_Witness ==
  /\ Past("hmi", 51)
  /\ loaded["CDELT2"].coef = 1
  /\ Correction(syn).meta["CDELT2"] = [coef |-> 1, pow |-> 2]
  /\ Correction(syn) # syn

(* C3 as stated: after the adjustment the map the Loader returned still    *)
(* holds the header values it held before.                                 *)
C3_OriginalUnmodified ==
  Past("hmi", 46) => syn.meta = loaded

(* C3 amended: the correction writes into syn_map's own header: after it   *)
(* syn_map is still the only Image Map, its CUNIT2 is 'degree' in place of *)
(* the loaded value, and its sample array, its set of keys and every key   *)
(* other than CUNIT2, CDELT2 and CDELT1 are as loaded.                     *)
C3_InPlace ==
  Past("hmi", 46) =>
    /\ DOMAIN maps = {"syn_map"}
    /\ syn.data = input.data
    /\ DOMAIN syn.meta = DOMAIN loaded
    /\ \A k \in DOMAIN loaded \ {"CUNIT2", "CDELT2", "CDELT1"} :
         syn.meta[k] = loaded[k]
    /\ loaded["CUNIT2"] = "Sine Latitude" /\ syn.meta["CUNIT2"] = "degree"

C3_Witness ==
  /\ Past("hmi", 46)
  /\ DOMAIN maps = {"syn_map"}
  /\ syn.meta # loaded
  /\ syn.meta["CTYPE1"] = loaded["CTYPE1"]

----------------------------------------------------------------------------
(* The edge-enhancement filter *)

smap == maps["aia_smap"]

IsConstant(a) == \A i \in 1..NRows(a), j \in 1..NCols(a) : a[i][j] = a[1][1]

OnBorder(a, i, j) == i = 1 \/ i = NRows(a) \/ j = 1 \/ j = NCols(a)

(* C4 as stated: the filter applied to a constant array yields zero at     *)
(* every pixel, border pixels included.                                    *)
C4_ConstantGivesZero ==
  (Past("edge", 30) /\ IsConstant(smap.data)) =>
    \A i \in 1..NRows(smap.data), j \in 1..NCols(smap.data) :
      locals["edge_enhanced_im"][i][j] = 0

(* C4 amended: the filter applied to a constant array of value c yields    *)
(* zero at every pixel that is not on the border of the array, and at      *)
(* every pixel when c = 0; when c # 0 and the array has at least two rows  *)
(* and two columns, the zero padding makes every border pixel non-zero     *)
(* (|c| * sqrt(18) at a corner, 4 |c| elsewhere on the border).            *)
C4_ConstantInteriorZero ==
  (Past("edge", 30) /\ IsConstant(smap.data)) =>
    \A i \in 1..NRows(smap.data), j \in 1..NCols(smap.data) :
      /\ ~OnBorder(smap.data, i, j) => locals["edge_enhanced_im"][i][j] = 0
      /\ smap.data[1][1] = 0 => locals["edge_enhanced_im"][i][j] = 0
      /\ ( /\ smap.data[1][1] # 0
           /\ NRows(smap.data) >= 2 /\ NCols(smap.data) >= 2
           /\ OnBorder(smap.data, i, j) ) =>
           locals["edge_enhanced_im"][i][j] =
             IF i \in {1, NRows(smap.data)} /\ j \in {1, NCols(smap.data)}
             THEN 18 * smap.data[1][1] * smap.data[1][1]
             ELSE 16 * smap.data[1][1] * smap.data[1][1]

C4_Witness ==
  /\ Past("edge", 30)
  /\ Shape(smap.data) = <<3, 3>>
  /\ IsConstant(smap.data) /\ smap.data[1][1] = -1
  /\ locals["edge_enhanced_im"][2][2] = 0
  /\ locals["edge_enhanced_im"][1][1] = 18
  /\ locals["edge_enhanced_im"][1][2] = 16

(* C5: the edge-enhanced Image Map has an array of the same shape as the   *)
(* submap's array and a header equal, key for key, to the submap's header. *)
C5_EdgeMapFrame ==
  Past("edge", 34) =>
    /\ Shape(maps["edge_map"].data) = Shape(smap.data)
    /\ DOMAIN maps["edge_map"].meta = DOMAIN smap.meta
    /\ \A k \in DOMAIN smap.meta : maps["edge_map"].meta[k] = smap.meta[k]

\* a 2 x 3 submap cut away from the origin of the image, whose samples the
\* filter has changed
C5_Witness ==
  /\ Past("edge", 34)
  /\ Shape(smap.data) = <<2, 3>>
  /\ smap.meta # maps["aia"].meta
  /\ maps["edge_map"].data # smap.data

\* the physical extent of map m along x and y, from its header and shape
Left(m) == (0 - m.meta["CRPIX1"].coef) * m.meta["CDELT1"].coef

Right(m) == (NCols(m.data) - m.meta["CRPIX1"].coef) * m.meta["CDELT1"].coef

Bottom(m) == (0 - m.meta["CRPIX2"].coef) * m.meta["CDELT2"].coef

Top(m) == (NRows(m.data) - m.meta["CRPIX2"].coef) * m.meta["CDELT2"].coef

InBounds(m, bl, tr) ==
  /\ Left(m) <= bl.x /\ tr.x <= Right(m)
  /\ Bottom(m) <= bl.y /\ tr.y <= Top(m)

Within(a, b, d) == a - b <= d /\ b - a <= d

(* C6: for an in-bounds corner pair with tr > bl in both axes, submap     *)
(* returns an Image Map (no RegionError) that has no more rows and no more *)
(* columns than the map and whose physical bounding box is within one      *)
(* pixel of (bl, tr) on each side.                                         *)
C6_SubmapBox ==
  ( /\ script = "edge"
    /\ Past("edge", 24) \/ (pc = 24 /\ status = "failed")
    /\ locals["tr"].x > locals["bl"].x /\ locals["tr"].y > locals["bl"].y
    /\ InBounds(maps["aia"], locals["bl"], locals["tr"]) ) =>
    /\ Past("edge", 24)
    /\ NRows(smap.data) <= NRows(maps["aia"].data)
    /\ NCols(smap.data) <= NCols(maps["aia"].data)
    /\ Within(Left(smap), locals["bl"].x, smap.meta["CDELT1"].coef)
    /\ Within(Right(smap), locals["tr"].x, smap.meta["CDELT1"].coef)
    /\ Within(Bottom(smap), locals["bl"].y, smap.meta["CDELT2"].coef)
    /\ Within(Top(smap), locals["tr"].y, smap.meta["CDELT2"].coef)

\* a corner pair that does not fall on pixel edges, on an image of step 2
C6_Witness ==
  /\ Past("edge", 24)
  /\ InBounds(maps["aia"], locals["bl"], locals["tr"])
  /\ maps["aia"].meta["CDELT1"].coef = 2
  /\ locals["bl"].x = 1 /\ locals["tr"].x = 3
  /\ Left(smap) = 0 /\ Right(smap) = 4
  /\ Shape(smap.data) # Shape(maps["aia"].data)

----------------------------------------------------------------------------
(* C7: the statements that set the display hints (lines 50 and 51) change  *)
(* the plot settings of syn_map and leave its sample array and every       *)
(* header entry as they were.                                              *)
C7_DisplayHintsOnly ==
  [][ (Running("hmi", 50) \/ Running("hmi", 51)) =>
        /\ maps'["syn_map"].data = syn.data
        /\ maps'["syn_map"].meta = syn.meta
        /\ maps'["syn_map"].plot_settings # syn.plot_settings ]_vars

C7_Witness ==
  /\ Past("hmi", 51)
  /\ syn.plot_settings["cmap"] = "hmimag"
  /\ syn.plot_settings["norm"] = <<-1500, 1500>>
  /\ syn.data = input.data
  /\ "cmap" \notin DOMAIN syn.meta

(* C8: a network fetch happens only when the cache holds no file for the   *)
(* URL; a successful fetch leaves the file in the cache; and once the      *)
(* cache holds the file, every later load, in the same or a later          *)
(* invocation, returns the cached file, fetches nothing and leaves the     *)
(* cache as it is.                                                         *)
C8_FetchIfAbsent ==
  [][ /\ fetches' # fetches => URL \notin DOMAIN cache
      /\ (fetches' # fetches /\ status' = "running") =>
           (URL \in DOMAIN cache' /\ locals'["filename"] = cache'[URL])
      /\ URL \in DOMAIN cache => (fetches' = fetches /\ cache' = cache)
      /\ (Running("hmi", 21) /\ URL \in DOMAIN cache) =>
           (hits' = hits + 1 /\ locals'["filename"] = cache[URL]) ]_vars

\* a later invocation has run to the end on the cached file: two loads
\* served from the cache after the one fetch
C8_Witness ==
  /\ script = "hmi" /\ status = "done"
  /\ fetches = 1 /\ hits = 2
  /\ locals["filename"] = cache[URL]

----------------------------------------------------------------------------
Rank(st) == CASE st = "Loader" -> 1 [] st = "Adjuster" -> 2 [] st = "Renderer" -> 3

IsPrefix(p, q) == Len(p) <= Len(q) /\ \A i \in 1..Len(p) : p[i] = q[i]

RendererStarted == \E i \in 1..Len(stages) : stages[i] = "Renderer"

(* C9 as stated: in every run of either script the stages occur strictly   *)
(* in the order Loader, Adjuster, Renderer.                                *)
C9_StrictStageOrder ==
  \A i \in 1..Len(stages), j \in 1..Len(stages) :
    i < j => Rank(stages[i]) < Rank(stages[j])

(* C9 amended: the synoptic-map script runs its stages in the order        *)
(* Loader, Adjuster, Renderer; the edge-enhancement script runs Loader,    *)
(* Adjuster, Loader, Renderer, because it constructs edge_map from an      *)
(* array and a header after the submap and the filter; in both scripts,    *)
(* once the first Renderer operation has run, every later statement of the *)
(* run is a Renderer operation and writes no Image Map.                    *)
C9_StageOrder ==
  /\ [](script = "hmi" => IsPrefix(stages, <<"Loader", "Adjuster", "Renderer">>))
  /\ [](script = "edge" =>
          IsPrefix(stages, <<"Loader", "Adjuster", "Loader", "Renderer">>))
  /\ [][ (RendererStarted /\ status = "running") =>
           (Stage(script, pc) = "Renderer" /\ maps' = maps) ]_vars

C9_Witness ==
  /\ script = "edge" /\ status = "done"
  /\ stages = <<"Loader", "Adjuster", "Loader", "Renderer">>
  /\ DOMAIN maps = {"aia", "aia_smap", "edge_map"}

----------------------------------------------------------------------------
(* C10 as stated: when an operation fails, the Image Maps are exactly as   *)
(* they were before that operation began.                                  *)
C10_AllOrNothing ==
  status = "failed" => maps = before

(* C10 amended: each statement is all-or-nothing, and a failed run never   *)
(* changes a sample array; but the header correction is three statements:  *)
(* when it fails at line 44 (CDELT2 missing) CUNIT2 has already been set   *)
(* to 'degree', and when it fails at line 46 (CDELT1 missing) CUNIT2 and   *)
(* CDELT2 have already been replaced; every other entry is as before the   *)
(* correction began.  A failure anywhere else leaves the Image Maps as     *)
(* they were before the failing operation.                                 *)
C10_FailureEffects ==
  status = "failed" =>
    /\ DOMAIN maps = DOMAIN before
    /\ \A n \in DOMAIN maps : maps[n].data = before[n].data
    /\ ~(script = "hmi" /\ pc \in {44, 46}) => maps = before
    /\ (script = "hmi" /\ pc = 44) =>
         /\ err = "KeyError" /\ "CDELT2" \notin DOMAIN before["syn_map"].meta
         /\ syn = SetMeta(before["syn_map"], "CUNIT2", "degree")
    /\ (script = "hmi" /\ pc = 46) =>
         /\ err = "KeyError" /\ "CDELT1" \notin DOMAIN before["syn_map"].meta
         /\ syn = SetMeta(SetMeta(before["syn_map"], "CUNIT2", "degree"), "CDELT2",
                          [coef |-> before["syn_map"].meta["CDELT2"].coef,
                           pow |-> IF before["syn_map"].meta["CDELT2"].coef = 0
                                   THEN 0 ELSE 1])

C10_Witness ==
  /\ script = "hmi" /\ status = "failed" /\ pc = 46
  /\ syn.meta["CUNIT2"] = "degree" /\ before["syn_map"].meta["CUNIT2"] = "Sine Latitude"
  /\ syn.meta["CDELT2"] = [coef |-> 2, pow |-> 1]
  /\ maps # before

====
